---- MODULE Spec2Model ----
(***************************************************************************)
(* Smart-Scheduler: the priority-only task scheduler (smartScheduling) and *)
(* the budget optimizer (knapsackOptimizer, constrainedKnapsack).          *)
(*                                                                         *)
(* Time is counted in whole minutes of local time from midnight of the day *)
(* on which the scheduler is called (day 0); a local day has 1440 minutes  *)
(* (no daylight-saving change inside the modelled days).                   *)
(* Money is counted in whole sub-units of a cent (SubPerCent per cent), so *)
(* that a cost may carry a fraction of a cent.                             *)
(***************************************************************************)
EXTENDS Integers, Sequences, FiniteSets, TLC

VARIABLES
    tasks,           \* smartScheduling: the caller's task array
    now,             \* smartScheduling: minute of day 0 at which it is called
    scheduledTasks,  \* smartScheduling: the returned array
    schedPc,         \* "input" while the array is built, "done" after the call
    items,           \* optimizer: the caller's item array
    totalBudget,     \* optimizer: the budget argument (sub-units)
    constraints,     \* optimizer: category -> fraction <<num, den>>
    result,          \* optimizer: the returned object
    budgetPc,        \* "input" while the array is built, then the function called
    heap,            \* the caller's objects: [arrays, objects], named by index
    returned,        \* the reference of the array a call returned, 0 before
    heapPc,          \* "input" while the array is built, then the function called
    sortedArray,     \* search: the array of records, ascending by title
    target,          \* search: the target string
    results,         \* search: the indices returned
    searchPc,        \* "input" while the array is built, then "done"
    storedTasks,     \* slots: the user's tasks in the database
    request,         \* slots: the query of the request, [date, duration]
    response,        \* slots: the availableSlots of the response
    slotsPc          \* "input" while tasks are stored, then "done"

schedVars == <<tasks, now, scheduledTasks, schedPc>>
budgetVars == <<items, totalBudget, constraints, result, budgetPc>>
heapVars == <<heap, returned, heapPc>>
searchVars == <<sortedArray, target, results, searchPc>>
slotVars == <<storedTasks, request, response, slotsPc>>
vars == <<tasks, now, scheduledTasks, schedPc,
          items, totalBudget, constraints, result, budgetPc,
          heap, returned, heapPc,
          sortedArray, target, results, searchPc,
          storedTasks, request, response, slotsPc>>

(***************************************************************************)
(* Bounds of the model.                                                    *)
(***************************************************************************)
MaxTasks == 3
MaxItems == 2
MaxCost == 3
MaxBudget == 4
MaxRecords == 2
MaxBatch == 3
MaxKeys == 3
MaxStored == 2
SubPerCent == 2

(***************************************************************************)
(* JavaScript numbers as far as the code needs them: a number is either    *)
(* NaN or an integer.  Number(undefined) and Number("abc") are NaN.        *)
(***************************************************************************)
NaN == [nan |-> TRUE, n |-> 0]
Num(n) == [nan |-> FALSE, n |-> n]

\* x || d for a number x: NaN and 0 are falsy
OrDefault(x, d) == IF x.nan \/ x.n = 0 THEN d ELSE x.n

(***************************************************************************)
(* Date arithmetic on minutes of local time.                               *)
(***************************************************************************)
MinutesPerHour == 60
\* a local day of 24 hours
MinutesPerDay == 24 * MinutesPerHour

getHours(t) == (t % MinutesPerDay) \div MinutesPerHour
DayOf(t) == t \div MinutesPerDay
\* d.setHours(h, 0, 0, 0)
setHours(t, h) == DayOf(t) * MinutesPerDay + h * MinutesPerHour
\* d.setDate(d.getDate() + 1)
NextDay(t) == t + MinutesPerDay

(***************************************************************************)
(* smartScheduling (priority-only version, the one the module exports).    *)
(***************************************************************************)
WorkStartHour == 9
WorkEndHour == 17
BreakMinutes == 15
DefaultDuration == 30
DefaultPriority == 3

\* the loop body of lines 219-243 for one task: its simplified record
SimplifyTask(task) ==
    [_id |-> task._id,
     estimatedDuration |-> OrDefault(task.estimatedDuration, DefaultDuration),
     priority |-> OrDefault(task.priority, DefaultPriority)]

\* the filter leaving the loop at the first task without an id (break for
\* line 229's continue)
RECURSIVE ValidTasksStopAtMissing(_)
ValidTasksStopAtMissing(ts) ==
    IF ts = <<>> THEN <<>>
    ELSE IF Head(ts)._id = 0
         THEN <<>>
         ELSE <<SimplifyTask(Head(ts))>> \o ValidTasksStopAtMissing(Tail(ts))

\* lines 216-243: tasks without an id are skipped, the others simplified
RECURSIVE ValidTasks(_)
ValidTasks(ts) ==
    IF ts = <<>> THEN <<>>
    ELSE IF Head(ts)._id = 0
         THEN ValidTasks(Tail(ts))
         ELSE <<SimplifyTask(Head(ts))>> \o ValidTasks(Tail(ts))

\* the comparator of line 248
ComparePriority(a, b) == a.priority - b.priority

\* an unstable sort: x is inserted before the elements that compare equal
RECURSIVE InsertByPriorityUnstable(_, _)
InsertByPriorityUnstable(s, x) ==
    IF s = <<>> THEN <<x>>
    ELSE IF ComparePriority(s[Len(s)], x) >= 0
         THEN Append(InsertByPriorityUnstable(SubSeq(s, 1, Len(s) - 1), x),
                     s[Len(s)])
         ELSE Append(s, x)

\* Array.prototype.sort is stable: insertion of x behind every element that
\* does not compare greater than x
RECURSIVE InsertByPriority(_, _)
InsertByPriority(s, x) ==
    IF s = <<>> THEN <<x>>
    ELSE IF ComparePriority(s[Len(s)], x) > 0
         THEN Append(InsertByPriority(SubSeq(s, 1, Len(s) - 1), x), s[Len(s)])
         ELSE Append(s, x)

RECURSIVE SortByPriority(_)
SortByPriority(s) ==
    IF s = <<>> THEN <<>>
    ELSE InsertByPriority(SortByPriority(SubSeq(s, 1, Len(s) - 1)), s[Len(s)])

\* lines 255-258 and 278-281: past 5 PM, move to the next day at 9 AM
RollOver(t) ==
    IF getHours(t) >= WorkEndHour
    THEN setHours(NextDay(t), WorkStartHour)
    ELSE t

\* lines 251-258: 9 AM today, then the 5 PM test on that value
StartCursor(n) == RollOver(setHours(n, WorkStartHour))

\* the end time taken from the advanced cursor instead of line 272's sum
EndTimeWithBreak(task, startTime) ==
    startTime + task.estimatedDuration + BreakMinutes

\* lines 271-272
EndTime(task, startTime) ==
    startTime + (IF task.estimatedDuration = 0 THEN DefaultDuration
                 ELSE task.estimatedDuration)

\* the cursor advanced without line 275's 15-minute break
AdvanceCursorNoBreak(endTime) == RollOver(endTime)

\* lines 275-281
AdvanceCursor(endTime) == RollOver(endTime + BreakMinutes)

\* lines 284-290
ScheduledRecord(task, startTime) ==
    [_id |-> task._id,
     scheduledStart |-> startTime,
     scheduledEnd |-> EndTime(task, startTime),
     estimatedDuration |-> task.estimatedDuration]

\* lines 265-297
RECURSIVE PlaceTasks(_, _)
PlaceTasks(vt, currentDate) ==
    IF vt = <<>> THEN <<>>
    ELSE <<ScheduledRecord(Head(vt), currentDate)>>
         \o PlaceTasks(Tail(vt), AdvanceCursor(EndTime(Head(vt), currentDate)))

smartScheduling(ts, n) ==
    IF Len(ts) = 0 THEN <<>>
    ELSE PlaceTasks(SortByPriority(ValidTasks(ts)), StartCursor(n))

(***************************************************************************)
(* knapsackOptimizer.  An amount of money m is held as the integer         *)
(* m * CentsPerUnit * SubPerCent.                                          *)
(***************************************************************************)
CentsPerUnit == 100

Max(a, b) == IF a >= b THEN a ELSE b

\* lines 16-20
EmptyResult == [selectedItems |-> <<>>, totalCost |-> 0, totalValue |-> 0]

\* Math.floor(amount * 100), lines 24, 39 and 70
ToCents(amount) == amount \div SubPerCent

\* the table reading the item's own row, dp[i][w - itemCost], in line 44
RECURSIVE dpSameRow(_, _, _)
dpSameRow(its, i, w) ==
    IF i = 0 THEN 0
    ELSE LET item == its[i]
             itemCost == ToCents(item.cost)
         IN  IF itemCost <= w /\ itemCost > 0
             THEN Max(item.value + dpSameRow(its, i, w - itemCost),
                      dpSameRow(its, i - 1, w))
             ELSE IF itemCost <= w
                  THEN Max(item.value + dpSameRow(its, i - 1, w),
                           dpSameRow(its, i - 1, w))
                  ELSE dpSameRow(its, i - 1, w)

\* the table filled with itemCost < w in place of line 41's itemCost <= w
RECURSIVE dpStrict(_, _, _)
dpStrict(its, i, w) ==
    IF i = 0 THEN 0
    ELSE LET item == its[i]
             itemCost == ToCents(item.cost)
         IN  IF itemCost < w
             THEN Max(item.value + dpStrict(its, i - 1, w - itemCost),
                      dpStrict(its, i - 1, w))
             ELSE dpStrict(its, i - 1, w)

\* lines 34-52: dp[i][w]
RECURSIVE dp(_, _, _)
dp(its, i, w) ==
    IF i = 0 THEN 0
    ELSE LET item == its[i]
             itemCost == ToCents(item.cost)
         IN  IF itemCost <= w
             THEN Max(item.value + dp(its, i - 1, w - itemCost), dp(its, i - 1, w))
             ELSE dp(its, i - 1, w)

\* line 64 and line 141: {...item, isSelected: true}
Selected(item) ==
    [name |-> item.name, cost |-> item.cost, value |-> item.value,
     category |-> item.category, isSelected |-> TRUE]

\* the backtrack taking item i whenever taking it reaches dp[i][w], instead
\* of line 61's test
RECURSIVE BacktrackPreferTake(_, _, _)
BacktrackPreferTake(its, i, w) ==
    IF i = 0 THEN <<>>
    ELSE IF /\ ToCents(its[i].cost) <= w
            /\ dp(its, i, w) = its[i].value + dp(its, i - 1, w - ToCents(its[i].cost))
         THEN <<Selected(its[i])>>
              \o BacktrackPreferTake(its, i - 1, w - ToCents(its[i].cost))
         ELSE BacktrackPreferTake(its, i - 1, w)

\* lines 59-72: the items pushed, from the last index down
RECURSIVE Backtrack(_, _, _)
Backtrack(its, i, w) ==
    IF i = 0 THEN <<>>
    ELSE IF dp(its, i, w) # dp(its, i - 1, w)
         THEN <<Selected(its[i])>>
              \o Backtrack(its, i - 1, w - ToCents(its[i].cost))
         ELSE Backtrack(its, i - 1, w)

\* totalCost summed over the discretized cents instead of line 67's item.cost
RECURSIVE SumCostInCents(_)
SumCostInCents(s) ==
    IF s = <<>> THEN 0
    ELSE ToCents(Head(s).cost) * SubPerCent + SumCostInCents(Tail(s))

RECURSIVE SumCost(_)
SumCost(s) == IF s = <<>> THEN 0 ELSE Head(s).cost + SumCost(Tail(s))

RECURSIVE SumValue(_)
SumValue(s) == IF s = <<>> THEN 0 ELSE Head(s).value + SumValue(Tail(s))

\* the optimizer with line 15's guard written totalBudget < 0
knapsackOptimizerZeroBudget(its, B) ==
    IF Len(its) = 0 \/ B < 0 THEN EmptyResult
    ELSE LET budget == ToCents(B)
             selectedItems == Backtrack(its, Len(its), budget)
         IN  [selectedItems |-> selectedItems,
              totalCost |-> SumCost(selectedItems),
              totalValue |-> dp(its, Len(its), budget)]

\* lines 13-80
knapsackOptimizer(its, B) ==
    IF Len(its) = 0 \/ B <= 0 THEN EmptyResult
    ELSE LET budget == ToCents(B)
             selectedItems == Backtrack(its, Len(its), budget)
         IN  [selectedItems |-> selectedItems,
              totalCost |-> SumCost(selectedItems),
              totalValue |-> dp(its, Len(its), budget)]

(***************************************************************************)
(* knapsackOptimizer on items as they arrive: cost and value are           *)
(* JavaScript numbers, NaN for a missing or non-numeric field, possibly    *)
(* negative.  A read outside a table row gives undefined, which is NaN in  *)
(* arithmetic and equal to itself under !==.  On well-formed items this is *)
(* knapsackOptimizer above (RawAgreesOnWellFormed).                        *)
(***************************************************************************)
\* Math.floor(cost * 100)
FloorCents(cost) == IF cost.nan THEN NaN ELSE Num(ToCents(cost.n))

\* a + b and Math.max(a, b)
JsAdd(a, b) == IF a.nan \/ b.nan THEN NaN ELSE Num(a.n + b.n)
JsMax(a, b) == IF a.nan \/ b.nan THEN NaN ELSE Num(Max(a.n, b.n))

\* lines 34-52: dp[i][w] for 0 <= w <= budget
RECURSIVE dpRaw(_, _, _, _)
dpRaw(its, budget, i, w) ==
    IF i = 0 THEN Num(0)
    ELSE LET item == its[i]
             itemCost == FloorCents(item.cost)
         IN  IF ~itemCost.nan /\ itemCost.n <= w
             THEN LET idx == w - itemCost.n
                      cell == IF idx \in 0..budget
                              THEN dpRaw(its, budget, i - 1, idx)
                              ELSE NaN
                  IN  JsMax(JsAdd(item.value, cell), dpRaw(its, budget, i - 1, w))
             ELSE dpRaw(its, budget, i - 1, w)

\* line 61: dp[i][w] !== dp[i - 1][w]; both cells are undefined when w is
\* NaN or outside the row
CellsDiffer(its, budget, i, w) ==
    IF w.nan \/ w.n \notin 0..budget THEN FALSE
    ELSE LET a == dpRaw(its, budget, i, w.n)
             b == dpRaw(its, budget, i - 1, w.n)
         IN  a.nan \/ b.nan \/ a.n # b.n

\* lines 59-72, w a JavaScript number
RECURSIVE BacktrackRaw(_, _, _, _)
BacktrackRaw(its, budget, i, w) ==
    IF i = 0 THEN <<>>
    ELSE IF CellsDiffer(its, budget, i, w)
         THEN <<Selected(its[i])>>
              \o BacktrackRaw(its, budget, i - 1,
                              JsAdd(w, IF FloorCents(its[i].cost).nan THEN NaN
                                       ELSE Num(-FloorCents(its[i].cost).n)))
         ELSE BacktrackRaw(its, budget, i - 1, w)

\* line 67 over the selected items
RECURSIVE JsSumCost(_)
JsSumCost(sel) ==
    IF sel = <<>> THEN Num(0) ELSE JsAdd(Head(sel).cost, JsSumCost(Tail(sel)))

\* lines 13-80 for a numeric totalBudget B
knapsackOptimizerRaw(its, B) ==
    IF Len(its) = 0 \/ B <= 0
    THEN [selectedItems |-> <<>>, totalCost |-> Num(0), totalValue |-> Num(0)]
    ELSE LET budget == ToCents(B)
             selectedItems == BacktrackRaw(its, budget, Len(its), Num(budget))
         IN  [selectedItems |-> selectedItems,
              totalCost |-> JsSumCost(selectedItems),
              totalValue |-> dpRaw(its, budget, Len(its), budget)]

(***************************************************************************)
(* constrainedKnapsack.  A constraints object maps some category names to  *)
(* a fraction <<numerator, denominator>>; "none" is an item without a      *)
(* category.                                                               *)
(***************************************************************************)
NoCategory == "none"

\* amount > B * fraction
Exceeds(amount, B, fraction) == amount * fraction[2] > B * fraction[1]

\* lines 99-104: categoryTotals[c] || 0
RECURSIVE CategoryTotal(_, _)
CategoryTotal(sel, c) ==
    IF sel = <<>> THEN 0
    ELSE (IF Head(sel).category # NoCategory /\ Head(sel).category = c
          THEN Head(sel).cost ELSE 0) + CategoryTotal(Tail(sel), c)

\* the check with line 109's > written >=
ConstraintsSatisfiedBelow(sel, B, cons) ==
    \A c \in DOMAIN cons :
        CategoryTotal(sel, c) * cons[c][2] < B * cons[c][1]

\* lines 106-113
ConstraintsSatisfied(sel, B, cons) ==
    \A c \in DOMAIN cons : ~Exceeds(CategoryTotal(sel, c), B, cons[c])

\* the sign of (b.value / b.cost) - (a.value / a.cost), line 126; a NaN
\* difference (0/0 on either side, Infinity - Infinity) counts as 0
IsNaNRatio(x) == x.cost = 0 /\ x.value = 0
IsInfRatio(x) == x.cost = 0 /\ x.value > 0
Sign(n) == IF n > 0 THEN 1 ELSE IF n < 0 THEN -1 ELSE 0
CompareRatio(a, b) ==
    IF IsNaNRatio(a) \/ IsNaNRatio(b) THEN 0
    ELSE IF IsInfRatio(a) /\ IsInfRatio(b) THEN 0
    ELSE IF IsInfRatio(b) THEN 1
    ELSE IF IsInfRatio(a) THEN -1
    ELSE Sign(b.value * a.cost - a.value * b.cost)

RECURSIVE InsertByRatio(_, _)
InsertByRatio(s, x) ==
    IF s = <<>> THEN <<x>>
    ELSE IF CompareRatio(s[Len(s)], x) > 0
         THEN Append(InsertByRatio(SubSeq(s, 1, Len(s) - 1), x), s[Len(s)])
         ELSE Append(s, x)

RECURSIVE SortByRatio(_)
SortByRatio(s) ==
    IF s = <<>> THEN <<>>
    ELSE InsertByRatio(SortByRatio(SubSeq(s, 1, Len(s) - 1)), s[Len(s)])

\* lines 130-137: the item would breach the cap of its category
BreachesCap(item, selectedItems, B, cons) ==
    /\ item.category # NoCategory
    /\ item.category \in DOMAIN cons
    /\ cons[item.category][1] # 0
    /\ Exceeds(CategoryTotal(selectedItems, item.category) + item.cost,
               B, cons[item.category])

\* lines 128-149: one iteration; g is [selectedItems, remainingBudget]
GreedyStep(g, item, B, cons) ==
    IF BreachesCap(item, g.selectedItems, B, cons) THEN g
    ELSE IF item.cost <= g.remainingBudget
         THEN [selectedItems |-> Append(g.selectedItems, Selected(item)),
               remainingBudget |-> g.remainingBudget - item.cost]
         ELSE g

\* the pass ended at the first item skipped (break for line 136's continue)
RECURSIVE GreedyLoopStopAtSkip(_, _, _, _)
GreedyLoopStopAtSkip(g, sortedItems, B, cons) ==
    IF sortedItems = <<>> THEN g
    ELSE IF GreedyStep(g, Head(sortedItems), B, cons) = g THEN g
         ELSE GreedyLoopStopAtSkip(GreedyStep(g, Head(sortedItems), B, cons),
                                   Tail(sortedItems), B, cons)

\* lines 128-149: the pass over the sorted items
RECURSIVE GreedyLoop(_, _, _, _)
GreedyLoop(g, sortedItems, B, cons) ==
    IF sortedItems = <<>> THEN g
    ELSE GreedyLoop(GreedyStep(g, Head(sortedItems), B, cons),
                    Tail(sortedItems), B, cons)

\* lines 120-158
GreedyFallback(its, B, cons) ==
    LET g == GreedyLoop([selectedItems |-> <<>>, remainingBudget |-> B],
                        SortByRatio(its), B, cons)
    IN  [selectedItems |-> g.selectedItems,
         totalCost |-> B - g.remainingBudget,
         totalValue |-> SumValue(g.selectedItems)]

constrainedKnapsack(its, B, cons) ==
    LET r == knapsackOptimizer(its, B)
    IN  IF DOMAIN cons = {} \/ Len(r.selectedItems) = 0 THEN r
        ELSE IF ConstraintsSatisfied(r.selectedItems, B, cons) THEN r
        ELSE GreedyFallback(its, B, cons)

(***************************************************************************)
(* The weighted-score smartScheduling (lines 54-102).  Times are in        *)
(* milliseconds.  Weights are held in tenths; a score is the exact fraction *)
(* [num, den] with den > 0, or Infinity.  Date.now() is read once per task *)
(* (line 66) and the clock may advance by tick between two reads.          *)
(***************************************************************************)
PriorityCeiling == 4
PriorityLevels == 3
WeightScale == 10
MsPerMinute == 60 * 1000

RECURSIVE MaxOver(_)
MaxOver(S) ==
    LET x == CHOOSE y \in S : TRUE
    IN  IF S = {x} THEN x ELSE Max(x, MaxOver(S \ {x}))

Infinity == [inf |-> TRUE, num |-> 0, den |-> 1]

\* a fraction with its denominator made positive
Fraction(num, den) ==
    IF den < 0 THEN [inf |-> FALSE, num |-> -num, den |-> -den]
    ELSE [inf |-> FALSE, num |-> num, den |-> den]

\* lines 65-82: the score of one task, clock being its reading of Date.now().
\* With span = 0 the quotient of line 68 is -Infinity (every deadline is
\* below maxDeadline + 1) and the score Infinity.
Score(task, ts, clock, weights) ==
    LET maxDeadline == MaxOver({ts[k].deadline : k \in 1..Len(ts)})
        maxDuration == MaxOver({ts[k].estimatedDuration : k \in 1..Len(ts)})
        span == maxDeadline - clock + 1
    IN  IF span = 0 THEN Infinity
        ELSE Fraction(
                weights.deadline * (span - (task.deadline - clock))
                    * PriorityLevels * maxDuration
                + weights.priority * (PriorityCeiling - task.priority)
                    * span * maxDuration
                + weights.duration * (maxDuration - task.estimatedDuration)
                    * PriorityLevels * span,
                WeightScale * PriorityLevels * span * maxDuration)

\* the sign of x.score - y.score, 0 for a NaN difference
ScoreDifference(x, y) ==
    IF x.score.inf /\ y.score.inf THEN 0
    ELSE IF x.score.inf THEN 1
    ELSE IF y.score.inf THEN -1
    ELSE Sign(x.score.num * y.score.den - y.score.num * x.score.den)

\* line 86: sort by b.score - a.score, stable
RECURSIVE InsertByScore(_, _)
InsertByScore(s, x) ==
    IF s = <<>> THEN <<x>>
    ELSE IF ScoreDifference(x, s[Len(s)]) > 0
         THEN Append(InsertByScore(SubSeq(s, 1, Len(s) - 1), x), s[Len(s)])
         ELSE Append(s, x)

RECURSIVE SortByScore(_)
SortByScore(s) ==
    IF s = <<>> THEN <<>>
    ELSE InsertByScore(SortByScore(SubSeq(s, 1, Len(s) - 1)), s[Len(s)])

\* lines 60-83: the copies with their scores; task k reads the clock at
\* n + (k - 1) * tick
ScoredTasks(ts, weights, n, tick) ==
    [k \in 1..Len(ts) |->
        [_id |-> ts[k]._id, deadline |-> ts[k].deadline,
         priority |-> ts[k].priority,
         estimatedDuration |-> ts[k].estimatedDuration,
         score |-> Score(ts[k], ts, n + (k - 1) * tick, weights)]]

\* lines 91-101
RECURSIVE AssignTimes(_, _)
AssignTimes(sorted, currentTime) ==
    IF sorted = <<>> THEN <<>>
    ELSE LET task == Head(sorted)
             end == currentTime + task.estimatedDuration * MsPerMinute
         IN  <<[_id |-> task._id, deadline |-> task.deadline,
                priority |-> task.priority,
                estimatedDuration |-> task.estimatedDuration,
                score |-> task.score,
                scheduledStart |-> currentTime, scheduledEnd |-> end]>>
             \o AssignTimes(Tail(sorted), end)

\* lines 54-102; line 89 reads the clock once more
smartSchedulingWeighted(ts, weights, n, tick) ==
    IF Len(ts) = 0 THEN <<>>
    ELSE AssignTimes(SortByScore(ScoredTasks(ts, weights, n, tick)),
                     n + Len(ts) * tick)

(***************************************************************************)
(* Inputs of the optimizer.                                                *)
(***************************************************************************)
Amount(units) == units * CentsPerUnit * SubPerCent

CostSamples == 0..MaxCost
ValueSamples == {1, 2}
Categories == {NoCategory, "food", "rent"}
BudgetSamples == ((-1)..MaxBudget) \cup {Amount(70)}
Fractions == {<<1, 2>>}
ConstraintSamples ==
    UNION {[S -> Fractions] : S \in SUBSET (Categories \ {NoCategory})}

\* an item takes its input position as name
ItemSamples(pos) ==
    {[name |-> pos, cost |-> c, value |-> v, category |-> k] :
        c \in CostSamples, v \in ValueSamples, k \in Categories}

\* the items of Scenario A, all with category k
ScenarioItems(k) ==
    <<[name |-> 1, cost |-> Amount(50), value |-> 6, category |-> k],
      [name |-> 2, cost |-> Amount(30), value |-> 5, category |-> k],
      [name |-> 3, cost |-> Amount(20), value |-> 4, category |-> k]>>

\* a batch for the greedy path: free and one-cent items, worthless ones
\* included, in the capped category or in none
BatchItemSamples(pos) ==
    {[name |-> pos, cost |-> c, value |-> v, category |-> k] :
        c \in {0, SubPerCent}, v \in {0, 1, 2}, k \in {NoCategory, "food"}}

\* raw cost and value fields an item may carry: missing or non-numeric,
\* negative, zero and positive (costs in whole cents)
RawCostSamples == {NaN, Num(-SubPerCent), Num(0), Num(SubPerCent), Num(2 * SubPerCent)}
RawValueSamples == {NaN, Num(-1), Num(1), Num(2)}
RawItemSamples(pos) ==
    {[name |-> pos, cost |-> c, value |-> v, category |-> NoCategory] :
        c \in RawCostSamples, v \in RawValueSamples}

(***************************************************************************)
(* Inputs of the scheduler.                                                *)
(***************************************************************************)
\* raw estimatedDuration values a task may carry
DurationSamples == {NaN, Num(0), Num(-60), Num(60), Num(465), Num(960)}
\* raw priority values a task may carry
PrioritySamples == {NaN, Num(1), Num(5)}
\* 09:00 and 18:00 of day 0
NowSamples == {9 * MinutesPerHour, 18 * MinutesPerHour}

\* a task with an id takes its input position as id; 0 stands for no id
TaskSamples(pos) ==
    {[_id |-> pos, estimatedDuration |-> d, priority |-> p] :
        d \in DurationSamples, p \in PrioritySamples}
    \cup {[_id |-> pos, estimatedDuration |-> Num(30), priority |-> Num(2)]}
    \cup {[_id |-> 0, estimatedDuration |-> Num(60), priority |-> Num(1)]}

(***************************************************************************)
(* The six functions on the caller's objects.  Arrays and records live on  *)
(* a heap and are named by references, their index: heap.arrays[a] is the  *)
(* sequence of record references held by array a, heap.objects[r] is the   *)
(* record r.  A call returns the heap it leaves and the reference of the   *)
(* array it returns.                                                       *)
(***************************************************************************)
\* the reference of the array the caller passes
Caller == 1

\* {...} and []: a new record, a new array
NewObject(h, v) ==
    [heap |-> [h EXCEPT !.objects = Append(@, v)], ref |-> Len(h.objects) + 1]
NewArray(h, refs) ==
    [heap |-> [h EXCEPT !.arrays = Append(@, refs)], ref |-> Len(h.arrays) + 1]

\* the records array a holds, in order
Deref(h, a) == [i \in 1..Len(h.arrays[a]) |-> h.objects[h.arrays[a][i]]]

\* a new record for every value of vs, pushed on a new array
RECURSIVE NewObjects(_, _)
NewObjects(h, vs) ==
    IF vs = <<>> THEN [heap |-> h, refs |-> <<>>]
    ELSE LET first == NewObject(h, Head(vs))
             rest == NewObjects(first.heap, Tail(vs))
         IN  [heap |-> rest.heap, refs |-> <<first.ref>> \o rest.refs]
NewArrayOf(h, vs) ==
    LET pushed == NewObjects(h, vs) IN NewArray(pushed.heap, pushed.refs)

\* the sort called on the array itself, without the copy of [...arr]
SpreadAlias(h, a) == [heap |-> h, ref |-> a]

\* [...arr]: a new array holding the same records
Spread(h, a) == NewArray(h, h.arrays[a])

\* arr.filter(...): a new array holding the records of arr that are in kept
Filter(h, a, kept) ==
    NewArray(h, SelectSeq(h.arrays[a], LAMBDA r : r \in kept))

\* Array.prototype.sort with the comparator key(a) - key(b), on <<key, ref>>
RECURSIVE InsertByKey(_, _)
InsertByKey(s, x) ==
    IF s = <<>> THEN <<x>>
    ELSE IF s[Len(s)][1] - x[1] > 0
         THEN Append(InsertByKey(SubSeq(s, 1, Len(s) - 1), x), s[Len(s)])
         ELSE Append(s, x)

RECURSIVE SortByKey(_)
SortByKey(s) ==
    IF s = <<>> THEN <<>>
    ELSE InsertByKey(SortByKey(SubSeq(s, 1, Len(s) - 1)), s[Len(s)])

\* arr.sort(...) reorders the array object it is called on and returns it;
\* key[r] is the comparator's key of record r
SortInPlace(h, a, key) ==
    LET refs == h.arrays[a]
        sorted == SortByKey([i \in 1..Len(refs) |-> <<key[refs[i]], refs[i]>>])
    IN  [heap |-> [h EXCEPT !.arrays[a] = [i \in 1..Len(refs) |-> sorted[i][2]]],
         ref |-> a]

\* lines 124-133; NaN stands for null
safeDate(value) == IF value.nan \/ value.n = 0 THEN NaN ELSE value

HasDeadline(task) == ~safeDate(task.deadline).nan
DeadlineTime(task) == safeDate(task.deadline).n
HasPriority(task) == ~task.priority.nan
PriorityOf(task) == task.priority.n
HasDuration(task) == ~task.estimatedDuration.nan /\ task.estimatedDuration.n > 0
DurationOf(task) == task.estimatedDuration.n
SimplifiedPriority(task) == task.priority

\* lines 153-161
earliestDeadlineFirst(h, a) ==
    LET validTasks == Filter(h, a, {r \in 1..Len(h.objects) : HasDeadline(h.objects[r])})
        copy == Spread(validTasks.heap, validTasks.ref)
    IN  SortInPlace(copy.heap, copy.ref,
                    [r \in 1..Len(h.objects) |-> DeadlineTime(h.objects[r])])

\* lines 168-176
priorityScheduling(h, a) ==
    LET validTasks == Filter(h, a, {r \in 1..Len(h.objects) : HasPriority(h.objects[r])})
        copy == Spread(validTasks.heap, validTasks.ref)
    IN  SortInPlace(copy.heap, copy.ref,
                    [r \in 1..Len(h.objects) |-> PriorityOf(h.objects[r])])

\* lines 183-193
shortestJobFirst(h, a) ==
    LET validTasks == Filter(h, a, {r \in 1..Len(h.objects) : HasDuration(h.objects[r])})
        copy == Spread(validTasks.heap, validTasks.ref)
    IN  SortInPlace(copy.heap, copy.ref,
                    [r \in 1..Len(h.objects) |-> DurationOf(h.objects[r])])

\* lines 206-301: validTasks is a new array of new simplified records,
\* sorted in place; scheduledTasks is a new array of new records
smartSchedulingOnHeap(h, a, n) ==
    IF Len(h.arrays[a]) = 0 THEN NewArray(h, <<>>)
    ELSE LET validTasks == NewArrayOf(h, ValidTasks(Deref(h, a)))
             sorted == SortInPlace(validTasks.heap, validTasks.ref,
                                   [r \in 1..Len(validTasks.heap.objects) |->
                                       SimplifiedPriority(validTasks.heap.objects[r])])
         IN  NewArrayOf(sorted.heap,
                        PlaceTasks(Deref(sorted.heap, sorted.ref), StartCursor(n)))

\* part_002 lines 13-80: selectedItems is a new array; line 64 pushes a new
\* record {...item, isSelected: true} for every item selected
knapsackOptimizerOnHeap(h, a, B) ==
    NewArrayOf(h, knapsackOptimizer(Deref(h, a), B).selectedItems)

\* part_002 line 126: [...items].sort(...) by value-to-cost ratio; an item
\* takes its input position as name
SortCopyByRatio(h, a) ==
    LET copy == Spread(h, a)
        sorted == SortByRatio(Deref(h, a))
    IN  [heap |-> [copy.heap EXCEPT !.arrays[copy.ref] =
                      [i \in 1..Len(sorted) |-> h.arrays[a][sorted[i].name]]],
         ref |-> copy.ref]

\* part_002 lines 89-159
constrainedKnapsackOnHeap(h, a, B, cons) ==
    LET first == knapsackOptimizerOnHeap(h, a, B)
        selectedItems == Deref(first.heap, first.ref)
    IN  IF DOMAIN cons = {} \/ Len(selectedItems) = 0 THEN first
        ELSE IF ConstraintsSatisfied(selectedItems, B, cons) THEN first
        ELSE LET sortedItems == SortCopyByRatio(first.heap, a)
                 g == GreedyLoop([selectedItems |-> <<>>, remainingBudget |-> B],
                                 Deref(sortedItems.heap, sortedItems.ref), B, cons)
             IN  NewArrayOf(sortedItems.heap, g.selectedItems)

\* the records a caller may hold in its array
\* raw deadline values a task may carry: missing or unparsable (NaN), the
\* numeric timestamp 0 of the epoch, later timestamps
DeadlineSamples == {NaN, Num(0), Num(1), Num(2)}
HeapTaskSamples(pos) ==
    {[_id |-> pos, deadline |-> dl, priority |-> p, estimatedDuration |-> d] :
        dl \in DeadlineSamples, p \in {NaN, Num(1), Num(2)},
        d \in {Num(0), Num(60)}}
HeapItemSamples(pos) ==
    {[name |-> pos, cost |-> c, value |-> v, category |-> k] :
        c \in {SubPerCent, 2 * SubPerCent}, v \in ValueSamples,
        k \in {"food", "rent"}}

IsTask(record) == "_id" \in DOMAIN record
IsItem(record) == "cost" \in DOMAIN record

\* deadlines, clock readings before, between and after them, clock ticks
WeightedDeadlineSamples == {2, 3, 5}
WeightedNowSamples == {0, 4, 6, 8}
TickSamples == {0, 1}
\* the default weights, and a caller's with a small deadline weight
WeightSamples ==
    {[deadline |-> 5, priority |-> 3, duration |-> 2],
     [deadline |-> 1, priority |-> 6, duration |-> 3]}
WeightedTaskSamples(pos) ==
    {[_id |-> pos, deadline |-> dl, priority |-> p, estimatedDuration |-> d] :
        dl \in WeightedDeadlineSamples, p \in {1, 3}, d \in {30, 60}}

SchedInit ==
    /\ tasks = <<>>
    /\ now = 0
    /\ scheduledTasks = <<>>
    /\ schedPc = "input"

BudgetIdle ==
    /\ items = <<>>
    /\ totalBudget = 0
    /\ constraints = <<>>
    /\ result = EmptyResult
    /\ budgetPc = "input"

AddTask ==
    /\ schedPc = "input"
    /\ Len(tasks) < MaxTasks
    /\ \E t \in TaskSamples(Len(tasks) + 1) : tasks' = Append(tasks, t)
    /\ UNCHANGED <<now, scheduledTasks, schedPc>>
    /\ UNCHANGED budgetVars
    /\ UNCHANGED heapVars
    /\ UNCHANGED <<searchVars, slotVars>>

RunSmartScheduling ==
    /\ schedPc = "input"
    /\ \E n \in NowSamples :
        /\ now' = n
        /\ scheduledTasks' = smartScheduling(tasks, n)
    /\ schedPc' = "done"
    /\ UNCHANGED tasks
    /\ UNCHANGED budgetVars
    /\ UNCHANGED heapVars
    /\ UNCHANGED <<searchVars, slotVars>>

SchedIdle == SchedInit

BudgetInit == BudgetIdle

AddItem ==
    /\ budgetPc = "input"
    /\ Len(items) < MaxItems
    /\ \E it \in ItemSamples(Len(items) + 1) : items' = Append(items, it)
    /\ UNCHANGED <<totalBudget, constraints, result, budgetPc>>
    /\ UNCHANGED schedVars
    /\ UNCHANGED heapVars
    /\ UNCHANGED <<searchVars, slotVars>>

LoadScenario ==
    /\ budgetPc = "input"
    /\ items = <<>>
    /\ \E k \in {NoCategory, "food"} : items' = ScenarioItems(k)
    /\ UNCHANGED <<totalBudget, constraints, result, budgetPc>>
    /\ UNCHANGED schedVars
    /\ UNCHANGED heapVars
    /\ UNCHANGED <<searchVars, slotVars>>

CallKnapsackOptimizer ==
    /\ budgetPc = "input"
    /\ \E B \in BudgetSamples :
        /\ totalBudget' = B
        /\ result' = knapsackOptimizer(items, B)
    /\ budgetPc' = "knapsack"
    /\ UNCHANGED <<items, constraints>>
    /\ UNCHANGED schedVars
    /\ UNCHANGED heapVars
    /\ UNCHANGED <<searchVars, slotVars>>

CallConstrainedKnapsack ==
    /\ budgetPc = "input"
    /\ \E B \in BudgetSamples, cons \in ConstraintSamples :
        /\ totalBudget' = B
        /\ constraints' = cons
        /\ result' = constrainedKnapsack(items, B, cons)
    /\ budgetPc' = "constrained"
    /\ UNCHANGED items
    /\ UNCHANGED schedVars
    /\ UNCHANGED heapVars
    /\ UNCHANGED <<searchVars, slotVars>>

(***************************************************************************)
(* fuzzyBinarySearch (lines 365-426), called with key = 'title'.  A string *)
(* is the sequence of its UTF-16 code units; indices start at 0 as in the  *)
(* code.                                                                   *)
(***************************************************************************)
toLowerCase(str) ==
    [k \in 1..Len(str) |-> IF str[k] \in 65..90 THEN str[k] + 32 ELSE str[k]]

\* str.includes(sub)
includes(str, sub) ==
    \E k \in 0..(Len(str) - Len(sub)) : SubSeq(str, k + 1, k + Len(sub)) = sub

\* a < b on strings: by code units, a proper prefix first
RECURSIVE StringLess(_, _)
StringLess(a, b) ==
    IF b = <<>> THEN FALSE
    ELSE IF a = <<>> THEN TRUE
    ELSE IF Head(a) # Head(b) THEN Head(a) < Head(b)
    ELSE StringLess(Tail(a), Tail(b))

\* sortedArray[i][key].toLowerCase()
LowerTitle(arr, i) == toLowerCase(arr[i + 1].title)

\* lines 378-392: the value of mid when the loop is left
RECURSIVE Probe(_, _, _, _, _)
Probe(arr, targetLower, left, right, mid) ==
    IF left > right THEN mid
    ELSE LET m == (left + right) \div 2
         IN  IF includes(LowerTitle(arr, m), targetLower) THEN m
             ELSE IF StringLess(LowerTitle(arr, m), targetLower)
                  THEN Probe(arr, targetLower, m + 1, right, m)
                  ELSE Probe(arr, targetLower, left, m - 1, m)

\* lines 399-409
RECURSIVE ScanLeft(_, _, _)
ScanLeft(arr, targetLower, leftIdx) ==
    IF leftIdx >= 0 /\ includes(LowerTitle(arr, leftIdx), targetLower)
    THEN <<leftIdx>> \o ScanLeft(arr, targetLower, leftIdx - 1)
    ELSE <<>>

\* lines 411-421
RECURSIVE ScanRight(_, _, _)
ScanRight(arr, targetLower, rightIdx) ==
    IF rightIdx < Len(arr) /\ includes(LowerTitle(arr, rightIdx), targetLower)
    THEN <<rightIdx>> \o ScanRight(arr, targetLower, rightIdx + 1)
    ELSE <<>>

\* line 425: results.sort((a, b) => a - b)
SortNumbers(s) ==
    LET sorted == SortByKey([i \in 1..Len(s) |-> <<s[i], s[i]>>])
    IN  [i \in 1..Len(s) |-> sorted[i][1]]

\* lines 365-426
fuzzyBinarySearch(arr, tgt) ==
    IF Len(arr) = 0 THEN <<>>
    ELSE LET targetLower == toLowerCase(tgt)
             mid == Probe(arr, targetLower, 0, Len(arr) - 1, 0)
         IN  IF includes(LowerTitle(arr, mid), targetLower)
             THEN SortNumbers(<<mid>> \o ScanLeft(arr, targetLower, mid - 1)
                                      \o ScanRight(arr, targetLower, mid + 1))
             ELSE <<>>

\* the code units of "A", "a" and "b"; titles and targets of up to two
CodeUnits == {65, 97, 98}
StringSamples ==
    {<<>>} \cup {<<c>> : c \in CodeUnits}
           \cup {<<c, d>> : c \in CodeUnits, d \in CodeUnits}

SearchInit ==
    /\ sortedArray = <<>>
    /\ target = <<>>
    /\ results = <<>>
    /\ searchPc = "input"

SearchIdle == SearchInit

(***************************************************************************)
(* getAvailableTimeSlots (taskController.js lines 664-777).  Times are     *)
(* minutes from midnight of day 0, as in the scheduler.                    *)
(***************************************************************************)
DefaultRequiredDuration == 60
BusinessStartHour == 9
BusinessEndHour == 17

\* line 670: parseInt(duration) || 60
RequiredDuration(req) == OrDefault(req.duration, DefaultRequiredDuration)

\* lines 673-676: the date parameter at midnight
TargetDate(req) == setHours(req.date, 0)

\* lines 683-689: the filter of the query
OnTargetDate(stored, req) ==
    SelectSeq(stored, LAMBDA t : /\ t.scheduledTime >= TargetDate(req)
                                 /\ t.scheduledTime < NextDay(TargetDate(req)))

\* line 689: .sort({ scheduledTime: 1 }); tasks with the same scheduledTime
\* come back in any order
SortedByScheduledTime(found) ==
    LET n == Len(found)
        orders == {f \in [1..n -> 1..n] :
                      /\ \A i \in 1..n, j \in 1..n : f[i] = f[j] => i = j
                      /\ \A i \in 1..(n - 1) :
                          found[f[i]].scheduledTime <= found[f[i + 1]].scheduledTime}
    IN  {[i \in 1..n |-> found[f[i]]] : f \in orders}

Slot(start, end) == [start |-> start, end |-> end, durationMinutes |-> end - start]

\* lines 733-736 and 750-753: scheduledTime plus (estimatedDuration || 0)
TaskEnd(task) == task.scheduledTime + task.estimatedDuration

\* lines 719-725
GapBeforeFirst(found, businessStart) ==
    IF found[1].scheduledTime > businessStart
    THEN <<Slot(businessStart, found[1].scheduledTime)>>
    ELSE <<>>

\* lines 728-746, from task i on
RECURSIVE GapsBetween(_, _)
GapsBetween(found, i) ==
    IF i >= Len(found) THEN <<>>
    ELSE (IF found[i + 1].scheduledTime > TaskEnd(found[i])
          THEN <<Slot(TaskEnd(found[i]), found[i + 1].scheduledTime)>>
          ELSE <<>>) \o GapsBetween(found, i + 1)

\* lines 749-761
GapAfterLast(found, businessEnd) ==
    IF TaskEnd(found[Len(found)]) < businessEnd
    THEN <<Slot(TaskEnd(found[Len(found)]), businessEnd)>>
    ELSE <<>>

\* lines 691-776: the availableSlots of the response for the tasks found
getAvailableTimeSlots(found, req) ==
    LET businessStart == setHours(TargetDate(req), BusinessStartHour)
        businessEnd == setHours(TargetDate(req), BusinessEndHour)
    IN  IF Len(found) = 0 THEN <<Slot(businessStart, businessEnd)>>
        ELSE SelectSeq(GapBeforeFirst(found, businessStart)
                           \o GapsBetween(found, 1)
                           \o GapAfterLast(found, businessEnd),
                       LAMBDA slot : slot.durationMinutes >= RequiredDuration(req))

\* tasks before, within and after business hours of day 0 and on day 1;
\* estimatedDuration 0 stands for a task without one
StoredTaskSamples ==
    {[scheduledTime |-> t, estimatedDuration |-> d] :
        t \in {7 * MinutesPerHour, 9 * MinutesPerHour, 10 * MinutesPerHour,
               16 * MinutesPerHour, 18 * MinutesPerHour,
               MinutesPerDay + 10 * MinutesPerHour},
        d \in {0, 30, 120}}
\* date parameters on day 0; duration parameters: absent, 0, 30, 60, 600
RequestSamples ==
    {[date |-> dt, duration |-> du] :
        dt \in {0, 13 * MinutesPerHour},
        du \in {NaN, Num(0), Num(30), Num(60), Num(600)}}

SlotsInit ==
    /\ storedTasks = <<>>
    /\ request = [date |-> 0, duration |-> NaN]
    /\ response = <<>>
    /\ slotsPc = "input"

SlotsIdle == SlotsInit

HeapInit ==
    /\ heap = [arrays |-> <<<<>>>>, objects |-> <<>>]
    /\ returned = 0
    /\ heapPc = "input"

HeapIdle == HeapInit

\* the caller pushes a record on its array
PushRecord(record) ==
    LET obj == NewObject(heap, record)
    IN  heap' = [obj.heap EXCEPT !.arrays[Caller] = Append(@, obj.ref)]

PushTask ==
    /\ heapPc = "input"
    /\ Len(heap.arrays[Caller]) < MaxRecords
    /\ \A r \in 1..Len(heap.objects) : IsTask(heap.objects[r])
    /\ \E t \in HeapTaskSamples(Len(heap.arrays[Caller]) + 1) : PushRecord(t)
    /\ UNCHANGED <<returned, heapPc>>
    /\ UNCHANGED <<schedVars, budgetVars>>
    /\ UNCHANGED <<searchVars, slotVars>>

PushItem ==
    /\ heapPc = "input"
    /\ Len(heap.arrays[Caller]) < MaxRecords
    /\ \A r \in 1..Len(heap.objects) : IsItem(heap.objects[r])
    /\ \E it \in HeapItemSamples(Len(heap.arrays[Caller]) + 1) : PushRecord(it)
    /\ UNCHANGED <<returned, heapPc>>
    /\ UNCHANGED <<schedVars, budgetVars>>
    /\ UNCHANGED <<searchVars, slotVars>>

\* the call leaves the heap call.heap and returns the array call.ref
Return(call, name) ==
    /\ heap' = call.heap
    /\ returned' = call.ref
    /\ heapPc' = name
    /\ UNCHANGED <<schedVars, budgetVars>>
    /\ UNCHANGED <<searchVars, slotVars>>

CallEarliestDeadlineFirst ==
    /\ heapPc = "input"
    /\ \A r \in 1..Len(heap.objects) : IsTask(heap.objects[r])
    /\ Return(earliestDeadlineFirst(heap, Caller), "earliestDeadlineFirst")

CallPriorityScheduling ==
    /\ heapPc = "input"
    /\ \A r \in 1..Len(heap.objects) : IsTask(heap.objects[r])
    /\ Return(priorityScheduling(heap, Caller), "priorityScheduling")

CallShortestJobFirst ==
    /\ heapPc = "input"
    /\ \A r \in 1..Len(heap.objects) : IsTask(heap.objects[r])
    /\ Return(shortestJobFirst(heap, Caller), "shortestJobFirst")

CallSmartScheduling ==
    /\ heapPc = "input"
    /\ \A r \in 1..Len(heap.objects) : IsTask(heap.objects[r])
    /\ \E n \in NowSamples :
        Return(smartSchedulingOnHeap(heap, Caller, n), "smartScheduling")

CallKnapsackOptimizerOnHeap ==
    /\ heapPc = "input"
    /\ \A r \in 1..Len(heap.objects) : IsItem(heap.objects[r])
    /\ \E B \in 1..MaxBudget :
        Return(knapsackOptimizerOnHeap(heap, Caller, B), "knapsackOptimizer")

CallConstrainedKnapsackOnHeap ==
    /\ heapPc = "input"
    /\ \A r \in 1..Len(heap.objects) : IsItem(heap.objects[r])
    /\ \E B \in 1..MaxBudget, cons \in ConstraintSamples :
        Return(constrainedKnapsackOnHeap(heap, Caller, B, cons),
               "constrainedKnapsack")

InitHeap == HeapInit /\ SchedIdle /\ BudgetIdle /\ SearchIdle /\ SlotsIdle
NextHeap ==
    \/ PushTask \/ PushItem
    \/ CallEarliestDeadlineFirst \/ CallPriorityScheduling
    \/ CallShortestJobFirst \/ CallSmartScheduling
    \/ CallKnapsackOptimizerOnHeap \/ CallConstrainedKnapsackOnHeap
SpecHeap == InitHeap /\ [][NextHeap]_vars

AddWeightedTask ==
    /\ schedPc = "input"
    /\ Len(tasks) < MaxTasks
    /\ \E t \in WeightedTaskSamples(Len(tasks) + 1) : tasks' = Append(tasks, t)
    /\ UNCHANGED <<now, scheduledTasks, schedPc>>
    /\ UNCHANGED budgetVars
    /\ UNCHANGED heapVars
    /\ UNCHANGED <<searchVars, slotVars>>

\* now holds the first reading of the clock, the tick and the weights
RunWeightedScheduling ==
    /\ schedPc = "input"
    /\ \E n \in WeightedNowSamples, tick \in TickSamples, w \in WeightSamples :
        /\ now' = [at |-> n, tick |-> tick, weights |-> w]
        /\ scheduledTasks' = smartSchedulingWeighted(tasks, w, n, tick)
    /\ schedPc' = "weighted"
    /\ UNCHANGED tasks
    /\ UNCHANGED budgetVars
    /\ UNCHANGED heapVars
    /\ UNCHANGED <<searchVars, slotVars>>

AddSearchRecord ==
    /\ searchPc = "input"
    /\ Len(sortedArray) < MaxKeys
    /\ \E title \in StringSamples :
        /\ Len(sortedArray) > 0 =>
            ~StringLess(title, sortedArray[Len(sortedArray)].title)
        /\ sortedArray' = Append(sortedArray, [title |-> title])
    /\ UNCHANGED <<target, results, searchPc>>
    /\ UNCHANGED <<schedVars, budgetVars, heapVars, slotVars>>

CallFuzzyBinarySearch ==
    /\ searchPc = "input"
    /\ \E tgt \in StringSamples :
        /\ target' = tgt
        /\ results' = fuzzyBinarySearch(sortedArray, tgt)
    /\ searchPc' = "done"
    /\ UNCHANGED sortedArray
    /\ UNCHANGED <<schedVars, budgetVars, heapVars, slotVars>>

InitSearch == SearchInit /\ SchedIdle /\ BudgetIdle /\ HeapIdle /\ SlotsIdle
NextSearch == AddSearchRecord \/ CallFuzzyBinarySearch
SpecSearch == InitSearch /\ [][NextSearch]_vars

StoreTask ==
    /\ slotsPc = "input"
    /\ Len(storedTasks) < MaxStored
    /\ \E t \in StoredTaskSamples : storedTasks' = Append(storedTasks, t)
    /\ UNCHANGED <<request, response, slotsPc>>
    /\ UNCHANGED <<schedVars, budgetVars, heapVars, searchVars>>

GetAvailableTimeSlots ==
    /\ slotsPc = "input"
    /\ \E req \in RequestSamples :
        /\ request' = req
        /\ \E found \in SortedByScheduledTime(OnTargetDate(storedTasks, req)) :
            response' = getAvailableTimeSlots(found, req)
    /\ slotsPc' = "done"
    /\ UNCHANGED storedTasks
    /\ UNCHANGED <<schedVars, budgetVars, heapVars, searchVars>>

InitSlots == SlotsInit /\ SchedIdle /\ BudgetIdle /\ HeapIdle /\ SearchIdle
NextSlots == StoreTask \/ GetAvailableTimeSlots
SpecSlots == InitSlots /\ [][NextSlots]_vars

InitWeighted == SchedInit /\ BudgetIdle /\ HeapIdle /\ SearchIdle /\ SlotsIdle
NextWeighted == AddWeightedTask \/ RunWeightedScheduling
SpecWeighted == InitWeighted /\ [][NextWeighted]_vars

InitSched == SchedInit /\ BudgetIdle /\ HeapIdle /\ SearchIdle /\ SlotsIdle
NextSched == AddTask \/ RunSmartScheduling
SpecSched == InitSched /\ [][NextSched]_vars

InitBudget == BudgetInit /\ SchedIdle /\ HeapIdle /\ SearchIdle /\ SlotsIdle
NextBudget == AddItem \/ LoadScenario \/ CallKnapsackOptimizer \/ CallConstrainedKnapsack
SpecBudget == InitBudget /\ [][NextBudget]_vars

AddBatchItem ==
    /\ budgetPc = "input"
    /\ Len(items) < MaxBatch
    /\ \E it \in BatchItemSamples(Len(items) + 1) : items' = Append(items, it)
    /\ UNCHANGED <<totalBudget, constraints, result, budgetPc>>
    /\ UNCHANGED schedVars
    /\ UNCHANGED heapVars
    /\ UNCHANGED <<searchVars, slotVars>>

CallConstrainedKnapsackOnBatch ==
    /\ budgetPc = "input"
    /\ \E B \in 1..MaxBudget, cons \in {c \in ConstraintSamples : DOMAIN c \subseteq {"food"}} :
        /\ totalBudget' = B
        /\ constraints' = cons
        /\ result' = constrainedKnapsack(items, B, cons)
    /\ budgetPc' = "constrained"
    /\ UNCHANGED items
    /\ UNCHANGED schedVars
    /\ UNCHANGED heapVars
    /\ UNCHANGED <<searchVars, slotVars>>

InitGreedy == BudgetInit /\ SchedIdle /\ HeapIdle /\ SearchIdle /\ SlotsIdle
NextGreedy == AddBatchItem \/ CallConstrainedKnapsackOnBatch
SpecGreedy == InitGreedy /\ [][NextGreedy]_vars

AddRawItem ==
    /\ budgetPc = "input"
    /\ Len(items) < MaxItems
    /\ \E it \in RawItemSamples(Len(items) + 1) : items' = Append(items, it)
    /\ UNCHANGED <<totalBudget, constraints, result, budgetPc>>
    /\ UNCHANGED schedVars
    /\ UNCHANGED heapVars
    /\ UNCHANGED <<searchVars, slotVars>>

CallKnapsackOptimizerRaw ==
    /\ budgetPc = "input"
    /\ \E B \in 1..MaxBudget :
        /\ totalBudget' = B
        /\ result' = knapsackOptimizerRaw(items, B)
    /\ budgetPc' = "knapsackRaw"
    /\ UNCHANGED <<items, constraints>>
    /\ UNCHANGED schedVars
    /\ UNCHANGED heapVars
    /\ UNCHANGED <<searchVars, slotVars>>

InitRaw == BudgetInit /\ SchedIdle /\ HeapIdle /\ SearchIdle /\ SlotsIdle
NextRaw == AddRawItem \/ CallKnapsackOptimizerRaw
SpecRaw == InitRaw /\ [][NextRaw]_vars

(***************************************************************************)
(* Properties of smartScheduling.                                          *)
(***************************************************************************)
Records == 1..Len(scheduledTasks)

\* C1: the intervals [scheduledStart, scheduledEnd) of any two distinct
\* output records do not overlap, whatever numeric estimatedDuration the
\* tasks carry.
C1_NoOverlap ==
    schedPc = "done" =>
        \A i, j \in Records :
            i # j => \/ scheduledTasks[i].scheduledEnd <= scheduledTasks[j].scheduledStart
                     \/ scheduledTasks[j].scheduledEnd <= scheduledTasks[i].scheduledStart

\* C2: in every output record scheduledEnd is scheduledStart plus exactly
\* the estimatedDuration (minutes) carried in that same record.
C2_EndIsStartPlusDuration ==
    schedPc = "done" =>
        \A i \in Records :
            scheduledTasks[i].scheduledEnd =
                scheduledTasks[i].scheduledStart + scheduledTasks[i].estimatedDuration

\* a run that placed a task on the fallback duration and a task on a
\* duration running past midnight
C2_Witness ==
    /\ schedPc = "done"
    /\ \E i \in 1..Len(tasks) :
        /\ tasks[i]._id # 0
        /\ tasks[i].estimatedDuration = NaN
        /\ \E j \in Records :
            /\ scheduledTasks[j]._id = i
            /\ scheduledTasks[j].estimatedDuration = DefaultDuration
    /\ \E j \in Records :
        /\ scheduledTasks[j].estimatedDuration > MinutesPerDay - WorkStartHour * MinutesPerHour
        /\ scheduledTasks[j].scheduledEnd > scheduledTasks[j].scheduledStart

\* C3: the duration used to place a task is always positive (a missing,
\* non-numeric, zero or negative estimatedDuration becomes the fallback), so
\* every output record ends strictly later than it starts.
C3_PositiveDuration ==
    schedPc = "done" =>
        \A i \in Records :
            /\ scheduledTasks[i].estimatedDuration > 0
            /\ scheduledTasks[i].scheduledEnd > scheduledTasks[i].scheduledStart

\* the resolved priority smartScheduling sorts the task of output record i by
KeyOf(i) == OrDefault(tasks[scheduledTasks[i]._id].priority, DefaultPriority)

\* every placed duration is positive
PositiveDurations == \A i \in Records : scheduledTasks[i].estimatedDuration > 0

\* minute of the day, and 09:00 of day d
TimeOfDay(t) == t % MinutesPerDay
NineOf(d) == d * MinutesPerDay + WorkStartHour * MinutesPerHour

\* C12: the first task placed starts at 09:00 of the reference day when the
\* reference time is before 17:00, and at 09:00 of the following day when
\* the reference time is at or after 17:00.
C12_FirstStart ==
    (schedPc = "done" /\ Len(scheduledTasks) > 0) =>
        scheduledTasks[1].scheduledStart =
            (IF getHours(now) >= WorkEndHour THEN NineOf(1) ELSE NineOf(0))

\* C13: whenever the advanced cursor (task end + 15 minutes) has reached or
\* passed 17:00 of the day on which the task started, the next task starts
\* at 09:00 of a later calendar day, for every (positive) duration.
C13_DayRollover ==
    (schedPc = "done" /\ PositiveDurations) =>
        \A i \in Records :
            (/\ i + 1 \in Records
             /\ scheduledTasks[i].scheduledEnd + BreakMinutes >=
                    DayOf(scheduledTasks[i].scheduledStart) * MinutesPerDay
                        + WorkEndHour * MinutesPerHour) =>
                /\ TimeOfDay(scheduledTasks[i + 1].scheduledStart)
                       = WorkStartHour * MinutesPerHour
                /\ DayOf(scheduledTasks[i + 1].scheduledStart)
                       > DayOf(scheduledTasks[i].scheduledStart)

\* C14: every scheduledStart has a local time of day in [09:00, 17:00)
\* (stated here for runs that place positive durations only).
C14_WorkingHours ==
    (schedPc = "done" /\ PositiveDurations) =>
        \A i \in Records :
            /\ getHours(scheduledTasks[i].scheduledStart) >= WorkStartHour
            /\ getHours(scheduledTasks[i].scheduledStart) < WorkEndHour

\* C15: the output is ordered by ascending resolved priority and by
\* ascending scheduledStart at the same time.
C15_OrderedByPriorityAndStart ==
    schedPc = "done" =>
        \A i, j \in Records :
            i < j => /\ KeyOf(i) <= KeyOf(j)
                     /\ scheduledTasks[i].scheduledStart
                            < scheduledTasks[j].scheduledStart

\* C16: two tasks of equal resolved priority keep their relative input
\* order in the output (ids are input positions).
C16_StableOrder ==
    schedPc = "done" =>
        \A i, j \in Records :
            (i < j /\ KeyOf(i) = KeyOf(j)) =>
                scheduledTasks[i]._id < scheduledTasks[j]._id

\* three tasks placed, the first and the last input task of equal priority
\* and the middle one more urgent
C16_Witness ==
    /\ schedPc = "done"
    /\ Len(tasks) = 3
    /\ Len(scheduledTasks) = 3
    /\ scheduledTasks[1]._id = 2
    /\ scheduledTasks[2]._id = 1
    /\ scheduledTasks[3]._id = 3
    /\ KeyOf(2) = KeyOf(3)

\* C17: the priority smartScheduling sorts by is always one of 1, 2, 3 (a
\* missing, non-numeric or out-of-range priority is resolved to 3), so such
\* a task is ordered exactly like a priority-3 task.
C17_PriorityInRange ==
    schedPc = "done" =>
        /\ \A k \in 1..Len(ValidTasks(tasks)) :
            ValidTasks(tasks)[k].priority \in 1..DefaultPriority
        /\ \A i, j \in Records :
            LET ri == IF KeyOf(i) \in 1..DefaultPriority THEN KeyOf(i) ELSE DefaultPriority
                rj == IF KeyOf(j) \in 1..DefaultPriority THEN KeyOf(j) ELSE DefaultPriority
            IN  i < j => \/ ri < rj
                         \/ ri = rj /\ scheduledTasks[i]._id < scheduledTasks[j]._id

\* C18: Scenario C: a priority-1 task of 60 minutes and a priority-2 task of
\* 30 minutes, called at 09:00, are placed at [09:00, 10:00) and
\* [10:15, 10:45) of the same day, whatever their input order.
C18_ScenarioC ==
    \A a, b \in 1..2 :
        (/\ schedPc = "done"
         /\ now = NineOf(0)
         /\ a # b
         /\ Len(tasks) = 2
         /\ tasks[a] = [_id |-> a, estimatedDuration |-> Num(60), priority |-> Num(1)]
         /\ tasks[b] = [_id |-> b, estimatedDuration |-> Num(30), priority |-> Num(2)]) =>
            scheduledTasks =
                <<[_id |-> a, scheduledStart |-> NineOf(0),
                   scheduledEnd |-> NineOf(0) + 60, estimatedDuration |-> 60],
                  [_id |-> b, scheduledStart |-> NineOf(0) + 75,
                   scheduledEnd |-> NineOf(0) + 105, estimatedDuration |-> 30]>>

\* Scenario C run with the priority-2 task first in the input
C18_Witness ==
    /\ schedPc = "done"
    /\ now = NineOf(0)
    /\ tasks = <<[_id |-> 1, estimatedDuration |-> Num(30), priority |-> Num(2)],
                 [_id |-> 2, estimatedDuration |-> Num(60), priority |-> Num(1)]>>
    /\ Len(scheduledTasks) = 2

\* the ids of the input tasks that have one
InputIds == {tasks[i]._id : i \in {k \in 1..Len(tasks) : tasks[k]._id # 0}}

\* C19: the output holds exactly one record for every input task that has
\* an id, carrying that id, and none for a task without one; an input
\* without any such task returns the empty array.
C19_OneRecordPerTaskWithId ==
    schedPc = "done" =>
        /\ {scheduledTasks[i]._id : i \in Records} = InputIds
        /\ Len(scheduledTasks) = Cardinality(InputIds)

\* a task without id first, then two tasks with malformed duration and
\* priority, both placed
C19_Witness ==
    /\ schedPc = "done"
    /\ Len(tasks) = 3
    /\ tasks[1]._id = 0
    /\ tasks[2].estimatedDuration = NaN
    /\ tasks[3].priority = NaN
    /\ tasks[3].estimatedDuration = Num(-60)
    /\ Len(scheduledTasks) = 2


(***************************************************************************)
(* Properties of the six functions on the caller's objects.                *)
(***************************************************************************)
\* a step in which one of the functions is called and returns
Called == heapPc = "input" /\ heapPc' # "input"

\* every array and every record that existed before the call is as it was:
\* the caller's array in length and order, every record in every field
InputsUnchanged ==
    /\ SubSeq(heap'.arrays, 1, Len(heap.arrays)) = heap.arrays
    /\ SubSeq(heap'.objects, 1, Len(heap.objects)) = heap.objects

ReturnsNewArray == returned' > Len(heap.arrays)

ReturnedRecords == {heap'.arrays[returned'][j] : j \in 1..Len(heap'.arrays[returned'])}

ReturnsNewRecords == \A r \in ReturnedRecords : r > Len(heap.objects)

ReturnsCallersRecords ==
    \A r \in ReturnedRecords : \E j \in 1..Len(heap.arrays[Caller]) : heap.arrays[Caller][j] = r

\* C20 as stated: each of the six functions leaves the caller's array and
\* every input record unchanged, and its results are new records.
C20_PureWithNewRecords ==
    [][Called => InputsUnchanged /\ ReturnsNewArray /\ ReturnsNewRecords]_vars

\* C20: each of the six functions leaves the caller's array unchanged in
\* length and element order and every input record unchanged in every field,
\* and returns a new array.  knapsackOptimizer, constrainedKnapsack and
\* smartScheduling fill it with new records; earliestDeadlineFirst,
\* priorityScheduling and shortestJobFirst fill it with the caller's records.
C20_Pure ==
    [][Called =>
        /\ InputsUnchanged
        /\ ReturnsNewArray
        /\ heapPc' \in {"knapsackOptimizer", "constrainedKnapsack", "smartScheduling"}
              => ReturnsNewRecords
        /\ heapPc' \in {"earliestDeadlineFirst", "priorityScheduling", "shortestJobFirst"}
              => ReturnsCallersRecords]_vars

\* constrainedKnapsack has taken the greedy path and its sorted copy holds
\* the caller's items in another order than the caller's array
C20_Witness ==
    /\ heapPc = "constrainedKnapsack"
    /\ Len(heap.arrays[Caller]) >= 2
    /\ \E a \in 1..Len(heap.arrays) :
        /\ a # Caller /\ a # returned
        /\ heap.arrays[a] # heap.arrays[Caller]
        /\ Len(heap.arrays[a]) = Len(heap.arrays[Caller])
        /\ \A j \in 1..Len(heap.arrays[a]) :
            \E k \in 1..Len(heap.arrays[Caller]) :
                heap.arrays[Caller][k] = heap.arrays[a][j]
    /\ \A r \in 1..Len(heap.arrays[returned]) :
        heap.objects[heap.arrays[returned][r]].isSelected

(***************************************************************************)
(* Properties of the optimizer on raw items.                               *)
(***************************************************************************)
WellFormedItems ==
    \A i \in 1..Len(items) :
        /\ ~items[i].cost.nan /\ items[i].cost.n >= 0
        /\ ~items[i].value.nan /\ items[i].value.n >= 0

\* the items with their fields as integers
PlainItems ==
    [i \in 1..Len(items) |->
        [name |-> items[i].name, cost |-> items[i].cost.n,
         value |-> items[i].value.n, category |-> items[i].category]]

\* on well-formed items the raw optimizer returns what knapsackOptimizer
\* returns: the same items selected, the same totals
RawAgreesOnWellFormed ==
    (budgetPc = "knapsackRaw" /\ WellFormedItems) =>
        LET r == knapsackOptimizer(PlainItems, totalBudget)
        IN  /\ result.totalValue = Num(r.totalValue)
            /\ result.totalCost = Num(r.totalCost)
            /\ [j \in 1..Len(result.selectedItems) |-> result.selectedItems[j].name]
                   = [j \in 1..Len(r.selectedItems) |-> r.selectedItems[j].name]

\* C11: a malformed cost or value never enters the DP as-is: every table
\* index w - itemCost stays within [0, budgetCents] and the returned
\* totalValue and totalCost are finite numbers.
C11_MalformedItemsKeptOut ==
    budgetPc = "knapsackRaw" =>
        /\ \A i \in 1..Len(items), w \in 0..ToCents(totalBudget) :
            LET itemCost == FloorCents(items[i].cost)
            IN  (~itemCost.nan /\ itemCost.n <= w) =>
                    w - itemCost.n \in 0..ToCents(totalBudget)
        /\ ~result.totalValue.nan
        /\ ~result.totalCost.nan

(***************************************************************************)
(* Properties of the optimizer.                                            *)
(***************************************************************************)
ItemIndices == 1..Len(items)

RECURSIVE CostOf(_)
CostOf(S) ==
    IF S = {} THEN 0
    ELSE LET i == CHOOSE x \in S : TRUE IN items[i].cost + CostOf(S \ {i})

RECURSIVE ValueOf(_)
ValueOf(S) ==
    IF S = {} THEN 0
    ELSE LET i == CHOOSE x \in S : TRUE IN items[i].value + ValueOf(S \ {i})

\* every cost is a whole number of cents
WholeCentCosts == \A i \in ItemIndices : items[i].cost % SubPerCent = 0

\* the subsets of the input items whose costs sum to at most totalBudget
WithinBudget == {S \in SUBSET ItemIndices : CostOf(S) <= totalBudget}

SelectedNames == {result.selectedItems[j].name : j \in 1..Len(result.selectedItems)}

\* C4: the totalCost returned by knapsackOptimizer (the sum of the selected
\* items' undiscretized costs) is at most totalBudget, also for costs that
\* carry a fraction of a cent.
C4_TotalCostWithinBudget ==
    (budgetPc = "knapsack" /\ totalBudget > 0) => result.totalCost <= totalBudget

C6_ScenarioA ==
    (/\ budgetPc = "knapsack"
     /\ items = ScenarioItems(NoCategory)
     /\ totalBudget = Amount(70)) =>
        /\ SelectedNames = {2, 3}
        /\ Len(result.selectedItems) = 2
        /\ result.totalCost = Amount(50)
        /\ result.totalValue = 9

\* C6 amended: Scenario A selects exactly the cost-50 and the cost-20 item
\* (pushed in that backtrack order: cost 20, then cost 50), totalCost 70
\* and totalValue 10.
C6_ScenarioASelection ==
    (/\ budgetPc = "knapsack"
     /\ items = ScenarioItems(NoCategory)
     /\ totalBudget = Amount(70)) =>
        /\ SelectedNames = {1, 3}
        /\ Len(result.selectedItems) = 2
        /\ result.totalCost = Amount(70)
        /\ result.totalValue = 10

\* knapsackOptimizer has been called on the items of Scenario A with budget 70
C6_Witness ==
    /\ budgetPc = "knapsack"
    /\ items = ScenarioItems(NoCategory)
    /\ totalBudget = Amount(70)
    /\ Len(result.selectedItems) > 0

\* C7: whichever path constrainedKnapsack takes, the selected costs sum to
\* at most totalBudget and, for every category c of constraints, the selected
\* costs of category c sum to at most totalBudget * constraints[c].
C7_WithinBudgetAndCaps ==
    (budgetPc = "constrained" /\ totalBudget > 0) =>
        /\ SumCost(result.selectedItems) <= totalBudget
        /\ \A c \in DOMAIN constraints :
            LET spend == CostOf({i \in SelectedNames : items[i].category = c})
            IN  spend * constraints[c][2] <= totalBudget * constraints[c][1]

\* C8: constrainedKnapsack returns the result of knapsackOptimizer whenever
\* constraints is empty or every category of constraints has a DP-selected
\* spend of at most totalBudget * constraints[category].
C8_DpResultUnchanged ==
    budgetPc = "constrained" =>
        LET r == knapsackOptimizer(items, totalBudget)
            chosen == {r.selectedItems[j].name : j \in 1..Len(r.selectedItems)}
            spend(c) == CostOf({i \in chosen : items[i].category = c})
        IN  (\/ DOMAIN constraints = {}
             \/ \A c \in DOMAIN constraints :
                    spend(c) * constraints[c][2] <= totalBudget * constraints[c][1])
            => result = r

\* the DP selection spends exactly the cap of a constrained category and
\* also holds an item of a category the constraints do not name
C8_Witness ==
    /\ budgetPc = "constrained"
    /\ result = knapsackOptimizer(items, totalBudget)
    /\ \E c \in DOMAIN constraints :
        LET spend == CostOf({i \in SelectedNames : items[i].category = c})
        IN  /\ spend > 0
            /\ spend * constraints[c][2] = totalBudget * constraints[c][1]
    /\ \E i \in SelectedNames : items[i].category \notin DOMAIN constraints

\* C9: both functions return the empty result whenever items is empty or
\* totalBudget <= 0, whatever the items and the constraints.
C9_EmptyResult ==
    (budgetPc # "input" /\ (Len(items) = 0 \/ totalBudget <= 0)) =>
        result = EmptyResult

\* budget 0 with a free item and a constraint on its category
C9_Witness ==
    /\ budgetPc = "constrained"
    /\ totalBudget = 0
    /\ \E i \in ItemIndices :
        /\ items[i].cost = 0
        /\ items[i].category \in DOMAIN constraints
    /\ result = EmptyResult

(***************************************************************************)
(* The tie-break of the backtrack.                                         *)
(***************************************************************************)
\* the cost of a subset as the DP sees it, in cents
RECURSIVE CentsOf(_)
CentsOf(S) ==
    IF S = {} THEN 0
    ELSE LET i == CHOOSE x \in S : TRUE
         IN  ToCents(items[i].cost) + CentsOf(S \ {i})

\* the subsets of highest total value among those the DP can afford
DpOptimal ==
    LET affordable == {S \in SUBSET ItemIndices : CentsOf(S) <= ToCents(totalBudget)}
    IN  {S \in affordable : \A T \in affordable : ValueOf(T) <= ValueOf(S)}

\* the highest index at which subsets S and T differ
LastDifference(S, T) ==
    CHOOSE i \in (S \ T) \cup (T \ S) : \A k \in (S \ T) \cup (T \ S) : k <= i

\* items i < j with identical cost and value
Twins ==
    {p \in ItemIndices \X ItemIndices :
        /\ p[1] < p[2]
        /\ items[p[1]].cost = items[p[2]].cost
        /\ items[p[1]].value = items[p[2]].value}

\* C21 as stated: among the subsets of optimal total value knapsackOptimizer
\* returns the one favouring later-indexed items: where it differs from
\* another optimal subset, the last item they differ on is in the returned
\* one; of two identical items of which only one is selected, it is the later.
C21_TieTowardLater ==
    (budgetPc = "knapsack" /\ totalBudget > 0) =>
        /\ \A S \in DpOptimal \ {SelectedNames} :
            LastDifference(S, SelectedNames) \in SelectedNames
        /\ \A p \in Twins : p[1] \in SelectedNames => p[2] \in SelectedNames

\* C21 amended: among the subsets of optimal total value knapsackOptimizer
\* returns the one favouring earlier-indexed items: where it differs from
\* another optimal subset, the last item they differ on is left out of the
\* returned one; of two identical items of which only one is selected, it is
\* the earlier.
C21_TieTowardEarlier ==
    (budgetPc = "knapsack" /\ totalBudget > 0) =>
        /\ SelectedNames \in DpOptimal
        /\ \A S \in DpOptimal \ {SelectedNames} :
            LastDifference(S, SelectedNames) \notin SelectedNames
        /\ \A p \in Twins : p[2] \in SelectedNames => p[1] \in SelectedNames

\* two identical items of which only one fits the budget: one is selected
C21_Witness ==
    /\ budgetPc = "knapsack"
    /\ totalBudget > 0
    /\ \E p \in Twins :
        /\ ToCents(items[p[1]].cost) <= ToCents(totalBudget)
        /\ 2 * ToCents(items[p[1]].cost) > ToCents(totalBudget)
        /\ Cardinality(SelectedNames \cap {p[1], p[2]}) = 1

(***************************************************************************)
(* Properties of the greedy path of constrainedKnapsack.                   *)
(***************************************************************************)
\* constrainedKnapsack went past line 117: the DP selection breaches a cap
GreedyPathTaken ==
    /\ budgetPc = "constrained"
    /\ DOMAIN constraints # {}
    /\ Len(knapsackOptimizer(items, totalBudget).selectedItems) > 0
    /\ ~ConstraintsSatisfied(knapsackOptimizer(items, totalBudget).selectedItems,
                             totalBudget, constraints)

\* the items in the order the pass considers them
Considered == SortByRatio(items)

\* the items selected before the pass reaches position k
SelectedBefore(k) == {Considered[j].name : j \in 1..(k - 1)} \cap SelectedNames

Capped(i) ==
    /\ items[i].category # NoCategory
    /\ items[i].category \in DOMAIN constraints

\* item i on top of the items of S stays within the budget and within the
\* cap of its category
Fits(i, S) ==
    /\ CostOf(S) + items[i].cost <= totalBudget
    /\ Capped(i) =>
        (CostOf({j \in S : items[j].category = items[i].category}) + items[i].cost)
            * constraints[items[i].category][2]
          <= totalBudget * constraints[items[i].category][1]

\* C22: on the greedy path the items are considered in descending value/cost
\* order, and every item that fits the remaining budget and the remaining cap
\* of its category at the moment it is considered is selected, whatever was
\* skipped before it.
C22_DescendingAndSkipping ==
    GreedyPathTaken =>
        /\ \A k \in 1..Len(Considered), l \in 1..Len(Considered) :
            (k < l /\ Considered[k].cost > 0 /\ Considered[l].cost > 0) =>
                Considered[k].value * Considered[l].cost
                    >= Considered[l].value * Considered[k].cost
        /\ \A k \in 1..Len(Considered) :
            Fits(Considered[k].name, SelectedBefore(k)) =>
                Considered[k].name \in SelectedNames

\* C23: on the greedy path a zero-cost item is ordered before every
\* positive-cost item and is selected, also next to other zero-cost items and
\* when its value is zero as well.
C23_ZeroCostFirstAndSelected ==
    GreedyPathTaken =>
        \A k \in 1..Len(Considered) :
            Considered[k].cost = 0 =>
                /\ \A l \in 1..(k - 1) : Considered[l].cost = 0
                /\ Considered[k].name \in SelectedNames

\* C29: the greedy path returns a maximal feasible selection: no item left
\* unselected fits on top of the returned selection.
C29_MaximalSelection ==
    GreedyPathTaken =>
        \A i \in ItemIndices \ SelectedNames : ~Fits(i, SelectedNames)

\* the pass skipped an item for the cap of its category and selected a
\* later one; an item stays unselected
C29_Witness ==
    /\ GreedyPathTaken
    /\ \E k \in 1..Len(Considered), l \in 1..Len(Considered) :
        /\ k < l
        /\ Considered[k].name \notin SelectedNames
        /\ Considered[k].cost <= totalBudget - CostOf(SelectedBefore(k))
        /\ Considered[l].name \in SelectedNames

(***************************************************************************)
(* Consistency of the result of knapsackOptimizer.                         *)
(***************************************************************************)
\* C24: selectedItems holds each input item at most once, every element is
\* a copy of an input item with isSelected = true, totalValue (read from the
\* DP table) is the sum of the values of the selected items and totalCost the
\* sum of their costs.
C24_ResultConsistent ==
    budgetPc = "knapsack" =>
        /\ Cardinality(SelectedNames) = Len(result.selectedItems)
        /\ \A j \in 1..Len(result.selectedItems) :
            LET sel == result.selectedItems[j]
            IN  /\ sel.name \in ItemIndices
                /\ sel.cost = items[sel.name].cost
                /\ sel.value = items[sel.name].value
                /\ sel.category = items[sel.name].category
                /\ sel.isSelected = TRUE
        /\ result.totalValue = ValueOf(SelectedNames)
        /\ result.totalCost = CostOf(SelectedNames)

\* two items selected, one of them with a fraction of a cent in its cost
C24_Witness ==
    /\ budgetPc = "knapsack"
    /\ Len(result.selectedItems) = 2
    /\ \E i \in SelectedNames : items[i].cost % SubPerCent # 0
    /\ \E i \in ItemIndices : items[i].cost = 0

(***************************************************************************)
(* Properties of the auxiliary sorts.                                      *)
(***************************************************************************)
CallerTasks == {heap.arrays[Caller][j] : j \in 1..Len(heap.arrays[Caller])}
ReturnedTasks == {heap.arrays[returned][j] : j \in 1..Len(heap.arrays[returned])}

\* C25: earliestDeadlineFirst returns exactly the input tasks whose deadline
\* is a valid date, the numeric timestamp 0 included, each once, ordered by
\* non-decreasing deadline.
C25_ValidDeadlinesSorted ==
    heapPc = "earliestDeadlineFirst" =>
        /\ ReturnedTasks = {r \in CallerTasks : ~heap.objects[r].deadline.nan}
        /\ Cardinality(ReturnedTasks) = Len(heap.arrays[returned])
        /\ \A j \in 1..(Len(heap.arrays[returned]) - 1) :
            heap.objects[heap.arrays[returned][j]].deadline.n
                <= heap.objects[heap.arrays[returned][j + 1]].deadline.n

\* a missing or non-positive estimatedDuration resolved to the fallback
ResolvedDuration(task) ==
    IF task.estimatedDuration.nan \/ task.estimatedDuration.n <= 0
    THEN DefaultDuration
    ELSE task.estimatedDuration.n

\* C26: the output of shortestJobFirst is a permutation of the whole input
\* list, ordered by non-decreasing resolved duration.
C26_PermutationByResolvedDuration ==
    heapPc = "shortestJobFirst" =>
        /\ ReturnedTasks = CallerTasks
        /\ Len(heap.arrays[returned]) = Len(heap.arrays[Caller])
        /\ \A j \in 1..(Len(heap.arrays[returned]) - 1) :
            ResolvedDuration(heap.objects[heap.arrays[returned][j]])
                <= ResolvedDuration(heap.objects[heap.arrays[returned][j + 1]])

(***************************************************************************)
(* Properties of the weighted-score smartScheduling.                       *)
(***************************************************************************)
\* C27: with a positive deadline weight and the clock standing still during
\* the call, of two tasks of the batch with equal priority and equal
\* estimatedDuration the one with the earlier deadline has the strictly
\* higher score and is placed earlier, wherever the deadlines lie relative
\* to the current time.
C27_CloserDeadlineFirst ==
    (schedPc = "weighted" /\ now.weights.deadline > 0 /\ now.tick = 0) =>
        \A i \in Records, j \in Records :
            (/\ scheduledTasks[i].priority = scheduledTasks[j].priority
             /\ scheduledTasks[i].estimatedDuration = scheduledTasks[j].estimatedDuration
             /\ scheduledTasks[i].deadline < scheduledTasks[j].deadline) =>
                /\ ScoreDifference(scheduledTasks[i], scheduledTasks[j]) > 0
                /\ i < j
                /\ scheduledTasks[i].scheduledStart < scheduledTasks[j].scheduledStart

(***************************************************************************)
(* Properties of fuzzyBinarySearch.                                        *)
(***************************************************************************)
\* the indices of the records whose title contains the target, case ignored
Matches ==
    {i \in 0..(Len(sortedArray) - 1) :
        includes(toLowerCase(sortedArray[i + 1].title), toLowerCase(target))}

\* C28: on an array sorted ascending by key fuzzyBinarySearch returns, in
\* ascending order, the indices of all items whose key contains target as a
\* case-insensitive substring: none is missing, none is added.
C28_AllMatchesReturned ==
    searchPc = "done" =>
        /\ {results[j] : j \in 1..Len(results)} = Matches
        /\ \A j \in 1..(Len(results) - 1) : results[j] < results[j + 1]

(***************************************************************************)
(* Properties of getAvailableTimeSlots.                                    *)
(***************************************************************************)
\* C30: every slot of the response lies within 09:00-17:00 of the target
\* date, is at least as long as the requested duration and overlaps no
\* [scheduledTime, scheduledTime + estimatedDuration) of a task of that day.
C30_SlotsFitRequest ==
    slotsPc = "done" =>
        \A k \in 1..Len(response) :
            /\ response[k].start >= setHours(TargetDate(request), BusinessStartHour)
            /\ response[k].end <= setHours(TargetDate(request), BusinessEndHour)
            /\ response[k].durationMinutes >= RequiredDuration(request)
            /\ \A i \in 1..Len(storedTasks) :
                (/\ DayOf(storedTasks[i].scheduledTime) = DayOf(TargetDate(request))
                 /\ storedTasks[i].estimatedDuration > 0) =>
                    ~(/\ response[k].start < TaskEnd(storedTasks[i])
                      /\ storedTasks[i].scheduledTime < response[k].end)

====
